---- MODULE Spec2Model ----
(***************************************************************************)
(* Expense ledger tool server (src/main.py): five tool handlers over one   *)
(* remote table, "expenses_test".  The state is the table, the store's id  *)
(* sequence and clock, and the last invocation with its return value.      *)
(*                                                                         *)
(* No handler contains an await, so on the event loop every handler runs   *)
(* from its first line to its return without interleaving with another     *)
(* handler: one action per handler invocation.                             *)
(*                                                                         *)
(* Text values that the code inspects character by character (dates) are   *)
(* sequences of one-character strings; other text (category, subcategory,  *)
(* note) is only compared for equality and is a TLA+ string.  An optional  *)
(* argument (default None) is a set with at most one element.              *)
(***************************************************************************)
EXTENDS Integers, Sequences, FiniteSets, TLC

VARIABLES store, nextId, now, call, ret

vars == <<store, nextId, now, call, ret>>

----------------------------------------------------------------------------
(* Bounds of the model *)

\* at most MaxId inserts are explored (the id sequence is unbounded)
MaxId == 2

----------------------------------------------------------------------------
(* Optional arguments: None is {}, a supplied value v is {v} *)

None == {}

Some(v) == {v}

Value(opt) == CHOOSE v \in opt : TRUE

----------------------------------------------------------------------------
(* Text as character sequences *)

Digits == {"0", "1", "2", "3", "4", "5", "6", "7", "8", "9"}

\* int() of one decimal digit
DigitVal(c) ==
  CASE c = "0" -> 0 [] c = "1" -> 1 [] c = "2" -> 2 [] c = "3" -> 3
    [] c = "4" -> 4 [] c = "5" -> 5 [] c = "6" -> 6 [] c = "7" -> 7
    [] c = "8" -> 8 [] c = "9" -> 9

\* code point of the characters the date inputs are made of
CodePoint(c) ==
  CASE c = " " -> 32 [] c = "-" -> 45 [] c = "/" -> 47
    [] OTHER -> 48 + DigitVal(c)

\* the store's comparison of two TEXT values: code point by code point, a
\* proper prefix sorting first
RECURSIVE TextLess(_, _)
TextLess(a, b) ==
  IF b = <<>> THEN FALSE
  ELSE IF a = <<>> THEN TRUE
  ELSE IF CodePoint(Head(a)) # CodePoint(Head(b))
       THEN CodePoint(Head(a)) < CodePoint(Head(b))
  ELSE TextLess(Tail(a), Tail(b))

TextLE(a, b) == a = b \/ TextLess(a, b)

----------------------------------------------------------------------------
(* datetime.strptime(date, "%Y-%m-%d") *)

IsDigitAt(s, i) == i <= Len(s) /\ s[i] \in Digits

CharAt(s, i, c) == i <= Len(s) /\ s[i] = c

\* %m is the regex 1[0-2]|0[1-9]|[1-9], tried in this order; the result is
\* the number of characters the alternative alt takes at position i, or 0
MonthAlt(s, i, alt) ==
  CASE alt = 1 -> IF CharAt(s, i, "1") /\ IsDigitAt(s, i + 1)
                     /\ DigitVal(s[i + 1]) <= 2 THEN 2 ELSE 0
    [] alt = 2 -> IF CharAt(s, i, "0") /\ IsDigitAt(s, i + 1)
                     /\ DigitVal(s[i + 1]) >= 1 THEN 2 ELSE 0
    [] alt = 3 -> IF IsDigitAt(s, i) /\ DigitVal(s[i]) >= 1 THEN 1 ELSE 0

\* %d is the regex 3[0-1]|[1-2]\d|0[1-9]|[1-9]| [1-9]
DayAlt(s, i, alt) ==
  CASE alt = 1 -> IF CharAt(s, i, "3") /\ IsDigitAt(s, i + 1)
                     /\ DigitVal(s[i + 1]) <= 1 THEN 2 ELSE 0
    [] alt = 2 -> IF IsDigitAt(s, i) /\ DigitVal(s[i]) \in {1, 2}
                     /\ IsDigitAt(s, i + 1) THEN 2 ELSE 0
    [] alt = 3 -> IF CharAt(s, i, "0") /\ IsDigitAt(s, i + 1)
                     /\ DigitVal(s[i + 1]) >= 1 THEN 2 ELSE 0
    [] alt = 4 -> IF IsDigitAt(s, i) /\ DigitVal(s[i]) >= 1 THEN 1 ELSE 0
    [] alt = 5 -> IF CharAt(s, i, " ") /\ IsDigitAt(s, i + 1)
                     /\ DigitVal(s[i + 1]) >= 1 THEN 2 ELSE 0

\* int() of the decimal digits s[i .. i+n-1], a leading space skipped
RECURSIVE IntOf(_, _, _)
IntOf(s, i, n) ==
  IF n = 0 THEN 0
  ELSE IF s[i + n - 1] = " " THEN 0
  ELSE 10 * IntOf(s, i, n - 1) + DigitVal(s[i + n - 1])

IsLeap(y) == y % 4 = 0 /\ (y % 100 # 0 \/ y % 400 = 0)

DaysInMonth(y, m) ==
  IF m = 2 THEN (IF IsLeap(y) THEN 29 ELSE 28)
  ELSE IF m \in {4, 6, 9, 11} THEN 30 ELSE 31

\* the day alternatives that match at position i
DayAlts(s, i) == {alt \in 1..5 : DayAlt(s, i, alt) > 0}

\* the month alternatives after which "-" and a day follow (the regex
\* backtracks over the month alternatives in order)
MonthAlts(s) ==
  {alt \in 1..3 :
     LET ml == MonthAlt(s, 6, alt)
     IN  ml > 0 /\ CharAt(s, 6 + ml, "-") /\ DayAlts(s, 7 + ml) # {}}

Min(S) == CHOOSE x \in S : \A y \in S : x <= y

\* the parse: [ok |-> TRUE, year, month, day], or [ok |-> FALSE] where
\* strptime raises ValueError (no match, unconverted data, or a date the
\* calendar does not have)
strptime(s) ==
  LET bad == [ok |-> FALSE, year |-> 0, month |-> 0, day |-> 0]
  IN
  IF ~(\A i \in 1..4 : IsDigitAt(s, i)) \/ ~CharAt(s, 5, "-")
     \/ MonthAlts(s) = {}
  THEN bad
  ELSE
    LET ml  == MonthAlt(s, 6, Min(MonthAlts(s)))
        dl  == DayAlt(s, 7 + ml, Min(DayAlts(s, 7 + ml)))
        end == 6 + ml + dl
        y   == IntOf(s, 1, 4)
        m   == IntOf(s, 6, ml)
        d   == IntOf(s, 7 + ml, dl)
    IN  IF end # Len(s) THEN bad
        ELSE IF y < 1 \/ d > DaysInMonth(y, m) THEN bad
        ELSE [ok |-> TRUE, year |-> y, month |-> m, day |-> d]

----------------------------------------------------------------------------
(* The date strings that occur as arguments *)

\* "2024-01-05", "2024-02-10", "2024-01-01", "2024-01-31", "2024-12-31"
Jan05 == <<"2", "0", "2", "4", "-", "0", "1", "-", "0", "5">>

Feb10 == <<"2", "0", "2", "4", "-", "0", "2", "-", "1", "0">>

Jan01 == <<"2", "0", "2", "4", "-", "0", "1", "-", "0", "1">>

Jan31 == <<"2", "0", "2", "4", "-", "0", "1", "-", "3", "1">>

Dec31 == <<"2", "0", "2", "4", "-", "1", "2", "-", "3", "1">>

\* "2024-1-5": the fifth of January without the zero padding
Jan5 == <<"2", "0", "2", "4", "-", "1", "-", "5">>

\* "2024/01/05" and "2024-02-30"
Slash == <<"2", "0", "2", "4", "/", "0", "1", "/", "0", "5">>

Feb30 == <<"2", "0", "2", "4", "-", "0", "2", "-", "3", "0">>

DateStrings == {Jan05, Feb10, Jan01, Jan31, Dec31, Jan5, Slash, Feb30}

\* strptime of each of them, computed once
Parsed == [s \in DateStrings |-> strptime(s)]

----------------------------------------------------------------------------
(* Floating point: amounts are integer-valued within the bounds explored *)

RECURSIVE BitLen(_)
BitLen(x) == IF x = 0 THEN 0 ELSE 1 + BitLen(x \div 2)

RECURSIVE Pow2(_)
Pow2(n) == IF n = 0 THEN 1 ELSE 2 * Pow2(n - 1)

\* x >= 0 rounded to p significant bits, ties to even
RoundToBits(x, p) ==
  IF BitLen(x) <= p THEN x
  ELSE LET u == Pow2(BitLen(x) - p)
           q == x \div u
           r == x % u
       IN  IF 2 * r < u THEN q * u
           ELSE IF 2 * r > u THEN (q + 1) * u
           ELSE IF q % 2 = 0 THEN q * u ELSE (q + 1) * u

DoubleBits == 53

RealBits == 24

\* float(amount): a Python float is a double
float(x) == RoundToBits(x, DoubleBits)

\* a value written to the column "amount REAL" and read back
Real(x) == RoundToBits(x, RealBits)

----------------------------------------------------------------------------
(* The table expenses_test: id BIGSERIAL PRIMARY KEY, date TEXT,           *)
(* amount REAL, category TEXT, subcategory TEXT, note TEXT,                *)
(* created_at TIMESTAMP WITH TIME ZONE DEFAULT NOW()                       *)

Columns == {"id", "date", "amount", "category", "subcategory", "note",
            "created_at"}

\* the value a column keeps of a value written to it
Stored(col, v) == IF col = "amount" THEN Real(v) ELSE v

\* insert(data): the row the store creates, id from the sequence and
\* created_at from its clock
InsertRow(data, id, ts) ==
  [c \in Columns |->
     IF c = "id" THEN id
     ELSE IF c = "created_at" THEN ts
     ELSE Stored(c, data[c])]

\* .gte("date", start_date).lte("date", end_date) on the TEXT column
SelectRange(table, start_date, end_date) ==
  {r \in table : TextLE(start_date, r.date) /\ TextLE(r.date, end_date)}

\* .eq(col, v)
SelectEq(rows, col, v) == {r \in rows : r[col] = v}

\* .order("date", desc=True).order("id", desc=True): r comes before q
OrderBefore(r, q) ==
  TextLess(q.date, r.date) \/ (q.date = r.date /\ q.id < r.id)

RECURSIVE OrderRows(_)
OrderRows(rows) ==
  IF rows = {} THEN <<>>
  ELSE LET first == CHOOSE r \in rows :
                      \A q \in rows \ {r} : OrderBefore(r, q)
       IN  <<first>> \o OrderRows(rows \ {first})

\* .select(cols)
Project(row, cols) == [c \in cols |-> row[c]]

ProjectAll(rowSeq, cols) ==
  [i \in 1..Len(rowSeq) |-> Project(rowSeq[i], cols)]

\* .update(update_data).eq("id", expense_id)
UpdateRow(row, update_data) ==
  [c \in Columns |->
     IF c \in DOMAIN update_data THEN Stored(c, update_data[c]) ELSE row[c]]

UpdateEq(table, expense_id, update_data) ==
  {IF r.id = expense_id THEN UpdateRow(r, update_data) ELSE r : r \in table}

\* a delete whose filter is .lte("id", expense_id)
DeleteEqLte(table, expense_id) == {r \in table : r.id > expense_id}

\* .delete().eq("id", expense_id)
DeleteEq(table, expense_id) == {r \in table : r.id # expense_id}

\* the orders in which a query without .order() may return a set of rows
RECURSIVE ArrivalOrders(_)
ArrivalOrders(rows) ==
  IF rows = {} THEN {<<>>}
  ELSE UNION {{<<r>> \o rest : rest \in ArrivalOrders(rows \ {r})} :
                r \in rows}

\* what .execute() does: "ok", "empty" (an insert that returns no row and
\* stores none), or the exception it raises
StoreOutcomes == {"ok", "empty", "APIError"}

QueryOutcomes == {"ok", "APIError"}

----------------------------------------------------------------------------
(* Return values.  keys are the keys of the returned dict; a bare list     *)
(* (list_expenses, summarize) has shape "list" and its elements in data;   *)
(* add_expense's "data" is one row, held as a one-element sequence.        *)
(* msg_id is the id interpolated into the message.  shape "raised" is an   *)
(* exception leaving the handler.                                          *)

Envelope(keys, status, message, msg_id, id, data) ==
  [shape |-> "dict", keys |-> keys, status |-> status, message |-> message,
   msg_id |-> msg_id, id |-> id, data |-> data]

ErrorEnvelope(message) ==
  Envelope({"status", "message"}, "error", message, None, None, <<>>)

BareList(data) ==
  [shape |-> "list", keys |-> {}, status |-> "", message |-> "",
   msg_id |-> None, id |-> None, data |-> data]

Raised(exc) ==
  [shape |-> "raised", keys |-> {}, status |-> "", message |-> exc,
   msg_id |-> None, id |-> None, data |-> <<>>]

\* except clauses that catch the named class only, not its subclasses
IsInstanceExact(exc, cls) == cls = exc

\* isinstance(exc, cls) for the classes that occur
IsInstance(exc, cls) == cls = exc \/ cls = "Exception"

\* the except clauses of a handler, in order: <<class, message>>
RECURSIVE Except(_, _)
Except(exc, clauses) ==
  IF clauses = <<>> THEN Raised(exc)
  ELSE IF IsInstance(exc, Head(clauses)[1]) THEN ErrorEnvelope(Head(clauses)[2])
  ELSE Except(exc, Tail(clauses))

----------------------------------------------------------------------------
(* summarize's client-side aggregation (lines 136-152) *)

\* an aggregation with "total_amount" = amount in place of +=
AddToSummaryAssign(summary, expense) ==
  LET cat    == expense.category
      amount == expense.amount
      known  == \E i \in 1..Len(summary) : summary[i].category = cat
      base   == IF known THEN summary
                ELSE Append(summary, [category |-> cat, total_amount |-> 0,
                                      count |-> 0])
  IN  [i \in 1..Len(base) |->
         IF base[i].category = cat
         THEN [category     |-> cat,
               total_amount |-> float(amount),
               count        |-> base[i].count + 1]
         ELSE base[i]]

\* summary[cat]["total_amount"] += amount; summary[cat]["count"] += 1,
\* summary being a dict, which keeps its keys in insertion order
AddToSummary(summary, expense) ==
  LET cat    == expense.category
      amount == expense.amount
      known  == \E i \in 1..Len(summary) : summary[i].category = cat
      base   == IF known THEN summary
                ELSE Append(summary, [category |-> cat, total_amount |-> 0,
                                      count |-> 0])
  IN  [i \in 1..Len(base) |->
         IF base[i].category = cat
         THEN [category     |-> cat,
               total_amount |-> float(base[i].total_amount + amount),
               count        |-> base[i].count + 1]
         ELSE base[i]]

RECURSIVE Aggregate(_, _)
Aggregate(summary, data) ==
  IF data = <<>> THEN summary
  ELSE Aggregate(AddToSummary(summary, Head(data)), Tail(data))

\* sorted(..., key=total_amount, reverse=True) is stable: an entry goes
\* behind every entry of an equal or larger key that came before it
InsertSorted(sorted, e) ==
  LET n == Cardinality({i \in 1..Len(sorted) :
                          sorted[i].total_amount >= e.total_amount})
  IN  SubSeq(sorted, 1, n) \o <<e>> \o SubSeq(sorted, n + 1, Len(sorted))

RECURSIVE SortedByTotal(_, _)
SortedByTotal(sorted, rest) ==
  IF rest = <<>> THEN sorted
  ELSE SortedByTotal(InsertSorted(sorted, Head(rest)), Tail(rest))

----------------------------------------------------------------------------
(* The handlers.  o is what the store call does if the handler issues it. *)

ListColumns == {"id", "date", "amount", "category", "subcategory", "note"}

SummaryColumns == {"category", "amount"}

\* the last invocation: the handler, its arguments, the number of store
\* calls it issued and what the store call did ("none" without one)
Invocation(op, args, calls, outcome) ==
  [op |-> op, args |-> args, calls |-> calls, outcome |-> outcome]

\* a handler without the strptime call
DateValidSkipped(date) == TRUE

\* lines 65 and 200: strptime does not raise ValueError
DateValid(date) == Parsed[date].ok

\* "if update_data is None" in place of "if not update_data"
NoFieldsIsNone(update_data) == FALSE

\* line 211: "if not update_data"
NoFields(update_data) == DOMAIN update_data = {}

\* line 130: "if category:" is false for None and for the empty string
ApplyFilter(category) == category # None /\ Value(category) # ""

\* lines 88-91
AddExcept ==
  << <<"ValueError", "Invalid date format. Use YYYY-MM-DD">>,
     <<"Exception", "Database error">> >>

\* lines 63-91
add_expense(date, amount, category, subcategory, note, o) ==
  LET args == [date |-> date, amount |-> amount, category |-> category,
               subcategory |-> subcategory, note |-> note]
      data == [date |-> date, amount |-> float(amount),
               category |-> category, subcategory |-> subcategory,
               note |-> note]
      row  == InsertRow(data, nextId, now)
  IN
  IF ~DateValid(date)
  THEN /\ ret' = Except("ValueError", AddExcept)
       /\ call' = Invocation("add_expense", args, 0, "none")
       /\ UNCHANGED <<store, nextId, now>>
  ELSE
    /\ call' = Invocation("add_expense", args, 1, o)
    /\ CASE o = "ok" ->
              /\ nextId <= MaxId
              /\ store' = store \cup {row}
              /\ nextId' = nextId + 1
              /\ now' = now + 1
              /\ ret' = Envelope({"status", "id", "message", "data"},
                                 "success", "Expense added successfully",
                                 None, Some(row.id), <<row>>)
         [] o = "empty" ->
              /\ ret' = ErrorEnvelope("Failed to add expense")
              /\ UNCHANGED <<store, nextId, now>>
         [] OTHER ->
              /\ ret' = Except(o, AddExcept)
              /\ UNCHANGED <<store, nextId, now>>

\* lines 111-112
ListExcept == << <<"Exception", "Error listing expenses">> >>

\* lines 102-110: result.data of the query
ListData(table, start_date, end_date) ==
  ProjectAll(OrderRows(SelectRange(table, start_date, end_date)), ListColumns)

\* lines 101-112
list_expenses(start_date, end_date, o) ==
  /\ o \in QueryOutcomes
  /\ call' = Invocation("list_expenses",
                        [start_date |-> start_date, end_date |-> end_date],
                        1, o)
  /\ ret' = IF o = "ok" THEN BareList(ListData(store, start_date, end_date))
            ELSE Except(o, ListExcept)
  /\ UNCHANGED <<store, nextId, now>>

\* lines 155-156
SummarizeExcept == << <<"Exception", "Error summarizing expenses_test">> >>

\* the rows the query of lines 125-133 selects
SummarizeRows(table, start_date, end_date, category) ==
  LET inRange == SelectRange(table, start_date, end_date)
  IN  IF ApplyFilter(category)
      THEN SelectEq(inRange, "category", Value(category))
      ELSE inRange

\* lines 135-154: the summary of result.data
SummaryList(data) == SortedByTotal(<<>>, Aggregate(<<>>, data))

\* lines 123-156; arrival is the order in which the store returns the rows
summarize(start_date, end_date, category, o) ==
  /\ o \in QueryOutcomes
  /\ call' = Invocation("summarize",
                        [start_date |-> start_date, end_date |-> end_date,
                         category |-> category], 1, o)
  /\ IF o = "ok"
     THEN \E summary_list \in
               {SummaryList(ProjectAll(arrival, SummaryColumns)) :
                  arrival \in ArrivalOrders(
                    SummarizeRows(store, start_date, end_date, category))} :
            ret' = BareList(summary_list)
     ELSE ret' = Except(o, SummarizeExcept)
  /\ UNCHANGED <<store, nextId, now>>

\* lines 175-176
DeleteExcept == << <<"Exception", "Error deleting expense">> >>

\* lines 165-176
delete_expense(expense_id, o) ==
  /\ o \in QueryOutcomes
  /\ call' = Invocation("delete_expense", [expense_id |-> expense_id], 1, o)
  /\ IF o = "ok"
     THEN /\ store' = DeleteEq(store, expense_id)
          /\ ret' = Envelope({"status", "message"}, "success",
                             "Expense {expense_id} deleted successfully",
                             Some(expense_id), None, <<>>)
     ELSE /\ store' = store
          /\ ret' = Except(o, DeleteExcept)
  /\ UNCHANGED <<nextId, now>>

\* lines 224-227
UpdateExcept ==
  << <<"ValueError", "Invalid date format. Use YYYY-MM-DD">>,
     <<"Exception", "Error updating expense">> >>

\* lines 198-209: the fields that are not None, amount through float()
UpdateData(date, amount, category, subcategory, note) ==
  LET given == [date |-> date, amount |-> amount, category |-> category,
                subcategory |-> subcategory, note |-> note]
  IN  [f \in {g \in DOMAIN given : given[g] # None} |->
         IF f = "amount" THEN float(Value(amount)) ELSE Value(given[f])]

\* lines 197-227
update_expense(expense_id, date, amount, category, subcategory, note, o) ==
  LET args == [expense_id |-> expense_id, date |-> date, amount |-> amount,
               category |-> category, subcategory |-> subcategory,
               note |-> note]
      update_data == UpdateData(date, amount, category, subcategory, note)
      updated == UpdateEq(store, expense_id, update_data)
  IN
  /\ o \in QueryOutcomes
  /\ IF date # None /\ ~DateValid(Value(date))
     THEN /\ ret' = Except("ValueError", UpdateExcept)
          /\ call' = Invocation("update_expense", args, 0, "none")
          /\ store' = store
     ELSE IF NoFields(update_data)
     THEN /\ ret' = ErrorEnvelope("No fields to update")
          /\ call' = Invocation("update_expense", args, 0, "none")
          /\ store' = store
     ELSE /\ call' = Invocation("update_expense", args, 1, o)
          /\ IF o = "ok"
             THEN /\ store' = updated
                  /\ ret' = Envelope({"status", "message", "data"}, "success",
                                     "Expense {expense_id} updated successfully",
                                     Some(expense_id), None,
                                     OrderRows(SelectEq(updated, "id",
                                                        expense_id)))
             ELSE /\ store' = store
                  /\ ret' = Except(o, UpdateExcept)
  /\ UNCHANGED <<nextId, now>>

----------------------------------------------------------------------------
(* Inputs *)

\* <<amount, category>>; 16777217 = 2^24 + 1 is a double that is not a REAL
ExpenseInputs == {<<10, "Food">>, <<25, "Food">>, <<16777217, "Travel">>}

\* the arguments of add_expense: each expense on "2024-01-05" and on
\* "2024-1-5", and one on "2024/01/05" and on "2024-02-30"
AddInputs ==
  {[date |-> d, amount |-> e[1], category |-> e[2], subcategory |-> "Lunch",
    note |-> ""] : d \in {Jan05, Jan5}, e \in ExpenseInputs}
  \cup [date : {Slash, Feb30}, amount : {10}, category : {"Food"},
        subcategory : {"Lunch"}, note : {""}]

\* <<start_date, end_date>>: January, the whole year, and February to
\* December
RangeInputs == {<<Jan01, Jan31>>, <<Jan01, Dec31>>, <<Feb10, Dec31>>}

FilterInputs == {None, Some("Food"), Some("")}

\* the ids the sequence can have given, and one it has not
IdInputs == 1..(MaxId + 1)

Optional(S) == {None} \cup {Some(v) : v \in S}

\* update_expense's optional arguments with none supplied, or the date
DateOnlyInputs ==
  [date : Optional({Jan5, Slash}), amount : {None}, category : {None},
   subcategory : {None}, note : {None}]

\* every subset of the optional arguments, one new value for each
AnyFieldInputs ==
  [date : Optional({Feb10}), amount : Optional({16777217}),
   category : Optional({"Travel"}), subcategory : Optional({""}),
   note : Optional({""})]

\* the first record, beside which the others stay as they were added, and
\* an id that no record has
UpdateIdInputs == {1, MaxId + 1}

----------------------------------------------------------------------------
(* The specification: the ledger under adds that vary date, amount and     *)
(* category, and updates of the date                                       *)

Init ==
  /\ store = {}
  /\ nextId = 1
  /\ now = 1
  /\ call = Invocation("none", <<>>, 0, "none")
  /\ ret = BareList(<<>>)

Add ==
  \E a \in AddInputs, o \in StoreOutcomes :
    add_expense(a.date, a.amount, a.category, a.subcategory, a.note, o)

List ==
  \E r \in RangeInputs, o \in QueryOutcomes : list_expenses(r[1], r[2], o)

Summarize ==
  \E r \in RangeInputs, category \in FilterInputs, o \in QueryOutcomes :
    summarize(r[1], r[2], category, o)

Delete ==
  \E expense_id \in IdInputs, o \in QueryOutcomes :
    delete_expense(expense_id, o)

Update ==
  \E expense_id \in IdInputs, u \in DateOnlyInputs, o \in QueryOutcomes :
    update_expense(expense_id, u.date, u.amount, u.category, u.subcategory,
                   u.note, o)

Next == Add \/ List \/ Summarize \/ Delete \/ Update

Spec == Init /\ [][Next]_vars

----------------------------------------------------------------------------
(* The notions the claims are stated in *)

Ids(table) == {r.id : r \in table}

\* s has the form YYYY-MM-DD and names a day of the calendar
IsYMD(s) ==
  /\ Len(s) = 10
  /\ \A i \in {1, 2, 3, 4, 6, 7, 9, 10} : s[i] \in Digits
  /\ s[5] = "-" /\ s[8] = "-"
  /\ LET y == IntOf(s, 1, 4)
         m == IntOf(s, 6, 2)
         d == IntOf(s, 9, 2)
     IN  y >= 1 /\ m \in 1..12 /\ d \in 1..DaysInMonth(y, m)

\* the calendar day a date string names, as a number that orders the days
Day(s) == LET p == Parsed[s] IN p.year * 10000 + p.month * 100 + p.day

InCalendarRange(date, start_date, end_date) ==
  Day(start_date) <= Day(date) /\ Day(date) <= Day(end_date)

Elements(seq) == {seq[i] : i \in 1..Len(seq)}

NoRepeats(seq) == Cardinality(Elements(seq)) = Len(seq)

RECURSIVE SumAmounts(_)
SumAmounts(rows) ==
  IF rows = {} THEN 0
  ELSE LET r == CHOOSE x \in rows : TRUE
       IN  r.amount + SumAmounts(rows \ {r})

\* by day descending, records of one day by id descending
CalendarOrdered(seq) ==
  \A i, j \in 1..Len(seq) :
    i < j => \/ Day(seq[i].date) > Day(seq[j].date)
             \/ Day(seq[i].date) = Day(seq[j].date) /\ seq[i].id > seq[j].id

\* summary is the summary by category of the listed records
SummaryOf(summary, listed) ==
  LET cats == {e.category : e \in Elements(listed)}
  IN  /\ Len(summary) = Cardinality(cats)
      /\ {e.category : e \in Elements(summary)} = cats
      /\ \A e \in Elements(summary) :
           LET of == {x \in Elements(listed) : x.category = e.category}
           IN  /\ DOMAIN e = {"category", "total_amount", "count"}
               /\ e.total_amount = SumAmounts(of)
               /\ e.count = Cardinality(of)
      /\ \A i \in 1..(Len(summary) - 1) :
           summary[i].total_amount >= summary[i + 1].total_amount

UpdatableColumns == {"date", "amount", "category", "subcategory", "note"}

\* the optional arguments of the update_expense invocation c that are given
Given(c) == {f \in UpdatableColumns : c.args[f] # None}

\* the table in which the record expense_id has the given arguments of c as
\* its fields and everything else is as in table
TableWith(table, c) ==
  {IF r.id = c.args.expense_id
   THEN [col \in Columns |->
           IF col \in Given(c) THEN Value(c.args[col]) ELSE r[col]]
   ELSE r : r \in table}

\* the date argument of a write, None where there is none
WrittenDate(c) ==
  IF c.op = "add_expense" THEN Some(c.args.date)
  ELSE IF c.op = "update_expense" THEN c.args.date
  ELSE None

IsErrorEnvelope(r) ==
  /\ r.shape = "dict"
  /\ r.keys = {"status", "message"}
  /\ r.status = "error"
  /\ r.message # ""

\* the invocation c is rejected by the handler's validation
ValidationFails(c) ==
  \/ WrittenDate(c) # None /\ ~Parsed[Value(WrittenDate(c))].ok
  \/ c.op = "update_expense" /\ Given(c) = {}

\* the ids whose record differs between two tables
ChangedIds(before, after) ==
  {i \in Ids(before) \cup Ids(after) :
     SelectEq(before, "id", i) # SelectEq(after, "id", i)}

WholeRecords(table) ==
  /\ \A r \in table : DOMAIN r = Columns
  /\ Cardinality(Ids(table)) = Cardinality(table)

----------------------------------------------------------------------------
(* The claims *)

\* C1: a successful add_expense of a YYYY-MM-DD date d, followed by
\* list_expenses over any range with start <= d <= end, returns a record
\* with exactly the inserted date, amount, category, subcategory and note,
\* whose id is the id of the success envelope and is the id of no record
\* that existed before the add.
C1_AddThenListReturnsInserted ==
  [][(call'.op = "add_expense" /\ ret'.status = "success"
      /\ IsYMD(call'.args.date))
     => /\ ret'.id # None
        /\ Value(ret'.id) \notin Ids(store)
        /\ \A r \in RangeInputs :
             InCalendarRange(call'.args.date, r[1], r[2])
             => [id          |-> Value(ret'.id),
                 date        |-> call'.args.date,
                 amount      |-> call'.args.amount,
                 category    |-> call'.args.category,
                 subcategory |-> call'.args.subcategory,
                 note        |-> call'.args.note]
                  \in Elements(ListData(store', r[1], r[2]))]_vars

\* C2: add_expense, and update_expense with a date, whose date is not a
\* calendar date in the form YYYY-MM-DD returns an error envelope, issues no
\* store call and leaves the stored records unchanged.
C2_OnlyYMDDatesAreWritten ==
  [][(WrittenDate(call') # None /\ ~IsYMD(Value(WrittenDate(call'))))
     => /\ IsErrorEnvelope(ret')
        /\ call'.calls = 0
        /\ store' = store]_vars

\* C3: list_expenses(start, end) returns exactly the stored records whose
\* date lies in the calendar range [start, end], each once, by date
\* descending and then id descending; it returns a sequence also when
\* nothing matches.
C3_ListIsTheCalendarRange ==
  (call.op = "list_expenses" /\ call.outcome = "ok")
  => /\ ret.shape = "list"
     /\ Elements(ret.data) =
          {Project(r, ListColumns) :
             r \in {x \in store :
                      InCalendarRange(x.date, call.args.start_date,
                                      call.args.end_date)}}
     /\ NoRepeats(ret.data)
     /\ CalendarOrdered(ret.data)

\* C4: summarize(start, end) without a category returns, for the records
\* list_expenses(start, end) returns on the same store, one entry per
\* category that occurs and no other, with total_amount the sum of their
\* amounts and count their number, by total_amount non-increasing.
C4_SummaryMatchesList ==
  (call.op = "summarize" /\ call.outcome = "ok" /\ call.args.category = None)
  => /\ ret.shape = "list"
     /\ SummaryOf(ret.data, ListData(store, call.args.start_date,
                                     call.args.end_date))

C4_Witness ==
  /\ call.op = "summarize" /\ call.outcome = "ok"
  /\ call.args.category = None
  /\ Len(ret.data) = 1
  /\ ret.data[1].count = 2
  /\ ret.data[1].total_amount = 35

\* C5: summarize(start, end, category=c) with any supplied c returns at most
\* one entry, and the category of that entry is c.
C5_FilteredSummaryIsOneCategory ==
  (call.op = "summarize" /\ call.outcome = "ok" /\ call.args.category # None)
  => /\ Len(ret.data) <= 1
     /\ \A e \in Elements(ret.data) :
          e.category = Value(call.args.category)

\* C6: update_expense with date, amount, category, subcategory and note all
\* omitted returns the error envelope "No fields to update", issues no store
\* call and leaves the store unchanged, whether or not the id exists.
C6_NoFieldsIsRejected ==
  [][(call'.op = "update_expense" /\ Given(call') = {})
     => /\ ret' = ErrorEnvelope("No fields to update")
        /\ call'.calls = 0
        /\ store' = store]_vars

C6_Witness ==
  /\ call.op = "update_expense"
  /\ Given(call) = {}
  /\ call.args.expense_id \in Ids(store)
  /\ ret.message = "No fields to update"

\* C7: a successful update_expense sets, on the record with that id, the
\* supplied fields to the supplied values and leaves the omitted fields, id,
\* created_at and every other record unchanged, as list_expenses then shows.
C7_UpdateSetsSuppliedValues ==
  [][(call'.op = "update_expense" /\ ret'.status = "success")
     => /\ store' = TableWith(store, call')
        /\ ListData(store', Jan01, Dec31) =
             ListData(TableWith(store, call'), Jan01, Dec31)]_vars

\* C8: a successful delete_expense(id) removes the record with that id and
\* no other, so that no list_expenses returns it; for an id that no record
\* has the store is unchanged; in both cases the result is the success
\* envelope that names the id.
C8_DeleteRemovesOnlyThatRecord ==
  [][(call'.op = "delete_expense" /\ call'.outcome = "ok")
     => LET expense_id == call'.args.expense_id
        IN  /\ Ids(store') = Ids(store) \ {expense_id}
            /\ store' \subseteq store
            /\ \A r \in RangeInputs :
                 \A e \in Elements(ListData(store', r[1], r[2])) :
                   e.id # expense_id
            /\ expense_id \notin Ids(store) => store' = store
            /\ ret'.shape = "dict"
            /\ ret'.keys = {"status", "message"}
            /\ ret'.status = "success"
            /\ ret'.msg_id = Some(expense_id)]_vars

C8_Witness ==
  /\ call.op = "delete_expense" /\ call.outcome = "ok"
  /\ call.args.expense_id < nextId
  /\ call.args.expense_id \notin Ids(store)
  /\ store # {}
  /\ ret.status = "success"

\* C9: every handler returns a dict or a list whatever the store call does,
\* never an exception; when the store call fails the result is an error
\* envelope and the stored records are unchanged.
C9_FailuresBecomeEnvelopes ==
  [][/\ ret'.shape \in {"dict", "list"}
     /\ call'.outcome = "APIError"
        => IsErrorEnvelope(ret') /\ store' = store]_vars

C9_Witness ==
  /\ call.outcome = "APIError"
  /\ call.op = "update_expense"
  /\ call.args.expense_id \in Ids(store)
  /\ ret.status = "error"

----------------------------------------------------------------------------
(* The specification of updates: every record is added with the same       *)
(* fields, and update_expense is called with every subset of its optional  *)
(* arguments.  The store calls succeed here; Spec explores their failures. *)

AddOne == add_expense(Jan05, 10, "Food", "Lunch", "taxi", "ok")

ListYear == list_expenses(Jan01, Dec31, "ok")

DeleteAny == \E expense_id \in IdInputs : delete_expense(expense_id, "ok")

UpdateAny ==
  \E expense_id \in UpdateIdInputs, u \in AnyFieldInputs :
    update_expense(expense_id, u.date, u.amount, u.category, u.subcategory,
                   u.note, "ok")

NextUpdate == AddOne \/ ListYear \/ DeleteAny \/ UpdateAny

SpecUpdate == Init /\ [][NextUpdate]_vars

====
